---- MODULE Spec2Model ----
(***************************************************************************)
(* A model of the OCR pipeline of ocrnasa:                                 *)
(*   src/src/Tesseract_ocr.py  extract_table_from_image,                   *)
(*                             extract_text_from_pdf                       *)
(*   src/ocrv1.py              extract_text_from_pdf (text only)           *)
(*                                                                         *)
(* Strings are sequences of one-character strings, so that strip, split    *)
(* and join are computed and not assumed.  Python lists are sequences; a   *)
(* Python index k is the index k + 1 here.  The column centres are Python  *)
(* floats in the source; here they are exact fractions [n, d].             *)
(***************************************************************************)
EXTENDS Integers, Sequences, FiniteSets, TLC

\* ------------------------------------------------------------------ bounds
\* The largest number of rows image_to_data gives for one page image.
MaxTokens == 4
\* The largest number of pages convert_from_path gives for one document.
MaxPages == 3

\* ------------------------------------------------------- program constants
MIN_TEXT_LENGTH_FOR_LEGIBILITY == 50
TABLE_CONFIDENCE_THRESHOLD == 70
COLUMN_TOLERANCE == 15

\* The row rule's factor 0.8 as the fraction RowGapNum / RowGapDen.
RowGapNum == 8
RowGapDen == 10

\* Python's None.
NoneVal == [kind |-> "None"]

\* ------------------------------------------------------------ text helpers
IsSpace(c) == c \in {" ", "\n"}

RECURSIVE LStrip(_)
LStrip(s) ==
    IF s = <<>> THEN <<>>
    ELSE IF IsSpace(Head(s)) THEN LStrip(Tail(s)) ELSE s

RECURSIVE RStrip(_)
RStrip(s) ==
    IF s = <<>> THEN <<>>
    ELSE IF IsSpace(s[Len(s)]) THEN RStrip(SubSeq(s, 1, Len(s) - 1)) ELSE s

\* str.strip()
Strip(s) == RStrip(LStrip(s))

\* str.split() with no argument: the maximal runs of non-space characters.
RECURSIVE SplitFrom(_, _, _)
SplitFrom(s, cur, acc) ==
    IF s = <<>> THEN (IF cur = <<>> THEN acc ELSE Append(acc, cur))
    ELSE IF IsSpace(Head(s))
         THEN SplitFrom(Tail(s), <<>>, IF cur = <<>> THEN acc ELSE Append(acc, cur))
         ELSE SplitFrom(Tail(s), Append(cur, Head(s)), acc)

Split(s) == SplitFrom(s, <<>>, <<>>)

\* ' '.join(words)
RECURSIVE Join(_)
Join(words) ==
    IF words = <<>> THEN <<>>
    ELSE IF Len(words) = 1 THEN words[1]
    ELSE words[1] \o <<" ">> \o Join(Tail(words))

\* cleaned_text = ' '.join(text.split()).strip()
CleanText(text) == Strip(Join(Split(text)))

\* --------------------------------------------------------- number helpers
Abs(x) == IF x < 0 THEN -x ELSE x

RECURSIVE GCD(_, _)
GCD(a, b) == IF b = 0 THEN a ELSE GCD(b, a % b)

\* A fraction in lowest terms (d > 0).
Frac(n, d) == LET g == GCD(Abs(n), d) IN [n |-> n \div g, d |-> d \div g]

\* int(x): truncation towards zero of n / m, m > 0.
Trunc(n, m) == IF n >= 0 THEN n \div m ELSE -((-n) \div m)

\* sorted(list(set(...))) of integers.
RECURSIVE SortedSeq(_)
SortedSeq(S) ==
    IF S = {} THEN <<>>
    ELSE LET m == CHOOSE x \in S : \A y \in S : x <= y
         IN <<m>> \o SortedSeq(S \ {m})

\* ------------------------------------------------------------- the inputs
Lefts == {0, 10, 26}
Tops == {100, 117}
Heights == {20}
\* The places a recognised word can be at: every left at every top, and one word
\* a little below the first line (less than 0.8 of its height).
WordPlaces == (Lefts \X Tops) \cup {<<0, 110>>}
Letters == <<"A", "B", "C", "D", "E", "F", "G", "H">>

\* What one row of image_to_data can look like: a recognised word, a word at
\* exactly the confidence threshold, a blank text, and a structural row (no text,
\* confidence -1).
Shapes ==
    {[kind |-> "word", left |-> p[1], top |-> p[2], height |-> h] :
        p \in WordPlaces, h \in Heights}
    \cup [kind : {"lowconf", "blank", "na"}, left : {0}, top : {100}, height : Heights]

MkToken(shape, k) ==
    [text |-> IF shape.kind = "blank" THEN <<" ">>
              ELSE IF shape.kind = "na" THEN <<>> ELSE <<Letters[k]>>,
     na |-> (shape.kind = "na"),
     conf |-> IF shape.kind = "na" THEN -1
              ELSE IF shape.kind = "lowconf" THEN TABLE_CONFIDENCE_THRESHOLD
              ELSE 90,
     left |-> shape.left, top |-> shape.top, height |-> shape.height]

\* The page image whose rows have the shapes f[1], ..., f[n].
MkImage(f) == [k \in DOMAIN f |-> MkToken(f[k], k)]

\* ------------------------------------------------- extract_table_from_image
VARIABLES
    image,              \* the rows image_to_data gives for the page image
    tpc,                \* where extract_table_from_image is
    data,               \* the filtered, sorted rows (with column_idx once assigned)
    column_centers,     \* fractions while clustering, whole numbers after line 80
    ti,                 \* the position of the running for loop in data
    table_rows,
    current_row_words,
    current_row_top,
    table_result,       \* the value returned, once tpc = "returned"
    merged_lefts,       \* history: per anchor of the clustering pass, the lefts merged into it
    row_tokens,         \* history: per row of table_rows, the tokens it was built from
    table_raised        \* history: an exception was raised inside the try block

tvars == <<image, tpc, data, column_centers, ti, table_rows, current_row_words,
           current_row_top, table_result, merged_lefts, row_tokens, table_raised>>

\* The state of extract_text_from_pdf.
VARIABLES
    variant,            \* "tesseract": src/src/Tesseract_ocr.py, "ocrv1": src/ocrv1.py
    ppc,                \* where extract_text_from_pdf is
    num_pages,          \* len(pages)
    page_number,        \* the page the loop is at (0 before the first)
    cleaned_text,
    page_text,
    is_legible,
    has_table,
    table_df,
    extracted_data,
    illegible_pages,
    df,                 \* the first value returned, once ppc = "done"
    page_log            \* history: per page, what OCR and the file system did

pvars == <<variant, ppc, num_pages, page_number, cleaned_text, page_text, is_legible,
           has_table, table_df, extracted_data, illegible_pages, df, page_log>>

vars == <<tvars, pvars>>

\* Lines 51-53: the rows that pass the confidence and text filters.
KeepRow(t) == t.conf > TABLE_CONFIDENCE_THRESHOLD /\ ~t.na /\ Strip(t.text) # <<>>

RECURSIVE FilterRows(_)
FilterRows(s) ==
    IF s = <<>> THEN <<>>
    ELSE IF KeepRow(Head(s)) THEN <<Head(s)>> \o FilterRows(Tail(s))
    ELSE FilterRows(Tail(s))

\* The sort key of line 59.
KeyLE(a, b) == a.top < b.top \/ (a.top = b.top /\ a.left <= b.left)

\* Inserts t after the rows that sort before or equal to it (a stable sort).
RECURSIVE InsertSorted(_, _)
InsertSorted(s, t) ==
    IF s = <<>> THEN <<t>>
    ELSE IF KeyLE(Head(s), t) THEN <<Head(s)>> \o InsertSorted(Tail(s), t)
    ELSE <<t>> \o s

RECURSIVE SortRows(_)
SortRows(s) ==
    IF s = <<>> THEN <<>>
    ELSE InsertSorted(SortRows(SubSeq(s, 1, Len(s) - 1)), s[Len(s)])

\* State at the call of extract_table_from_image(img).
TableInit(img) ==
    /\ image = img
    /\ tpc = "ocr"
    /\ data = <<>>
    /\ column_centers = <<>>
    /\ ti = 1
    /\ table_rows = <<>>
    /\ current_row_words = <<>>
    /\ current_row_top = 0
    /\ table_result = NoneVal
    /\ merged_lefts = <<>>
    /\ row_tokens = <<>>
    /\ table_raised = FALSE

\* Lines 48-59: image_to_data, the filters, the empty check and the sort.
FilterAndSort ==
    /\ tpc = "ocr"
    /\ LET kept == FilterRows(image) IN
        IF kept = <<>>
        THEN /\ tpc' = "returned"
             /\ table_result' = NoneVal
             /\ UNCHANGED data
        ELSE /\ tpc' = "cluster"
             /\ data' = SortRows(kept)
             /\ UNCHANGED table_result
    /\ ti' = 1
    /\ UNCHANGED <<image, column_centers, table_rows, current_row_words,
                   current_row_top, merged_lefts, row_tokens, table_raised>>
    /\ UNCHANGED pvars

\* Line 71: the anchors within COLUMN_TOLERANCE of left.
WithinTolerance(left, center) ==
    Abs(left * center.d - center.n) <= COLUMN_TOLERANCE * center.d

\* Line 73: the centre a merge gives.
MergedCenter(center, left, centers) ==
    Frac(center.n * Len(centers) + left * center.d, center.d * (Len(centers) + 1))

\* Lines 68-77: one pass of the loop over data, for the row data[ti].
ClusterStep ==
    /\ tpc = "cluster"
    /\ ti <= Len(data)
    /\ LET left == data[ti].left
           hits == {j \in 1..Len(column_centers) :
                        WithinTolerance(left, column_centers[j])}
       IN IF hits # {}
          THEN LET j == CHOOSE x \in hits : \A y \in hits : x <= y IN
               /\ column_centers' =
                      [column_centers EXCEPT
                          ![j] = MergedCenter(column_centers[j], left, column_centers)]
               /\ merged_lefts' = [merged_lefts EXCEPT ![j] = Append(@, left)]
          ELSE /\ column_centers' = Append(column_centers, Frac(left, 1))
               /\ merged_lefts' = Append(merged_lefts, <<left>>)
    /\ ti' = ti + 1
    /\ UNCHANGED <<image, tpc, data, table_rows, current_row_words, current_row_top,
                   table_result, row_tokens, table_raised>>
    /\ UNCHANGED pvars

\* Line 80: int(x / COLUMN_TOLERANCE) * COLUMN_TOLERANCE.
Quantized(center) == Trunc(center.n, center.d * COLUMN_TOLERANCE) * COLUMN_TOLERANCE

\* Lines 80-81: quantize, deduplicate and sort the centres.
Quantize ==
    /\ tpc = "cluster"
    /\ ti > Len(data)
    /\ column_centers' =
           LET qs == SortedSeq({Quantized(column_centers[j]) :
                                    j \in 1..Len(column_centers)})
           IN [j \in 1..Len(qs) |-> Frac(qs[j], 1)]
    /\ tpc' = "assign"
    /\ UNCHANGED <<image, data, ti, table_rows, current_row_words, current_row_top,
                   table_result, merged_lefts, row_tokens, table_raised>>
    /\ UNCHANGED pvars

\* Line 87: np.argmin(np.abs(np.array(column_centers) - left)), the first minimum.
ClosestColumn(left, centers) ==
    CHOOSE j \in 1..Len(centers) :
        /\ \A k \in 1..Len(centers) :
               Abs(centers[j].n - left) <= Abs(centers[k].n - left)
        /\ \A k \in 1..(j - 1) :
               Abs(centers[k].n - left) > Abs(centers[j].n - left)

\* Lines 84-94: column_idx for every row, and the start of the row walk.
AssignColumns ==
    /\ tpc = "assign"
    /\ data' = [k \in 1..Len(data) |->
                   [text |-> data[k].text, na |-> data[k].na, conf |-> data[k].conf,
                    left |-> data[k].left, top |-> data[k].top,
                    height |-> data[k].height,
                    column_idx |-> ClosestColumn(data[k].left, column_centers)]]
    /\ table_rows' = <<>>
    /\ current_row_words' = <<>>
    /\ current_row_top' = data[1].top
    /\ ti' = 1
    /\ tpc' = "rows"
    /\ UNCHANGED <<image, column_centers, table_result, merged_lefts, row_tokens,
                   table_raised>>
    /\ UNCHANGED pvars

\* BuildRow with a slip: a word for an occupied cell is put in a new cell at the
\* end of the row instead of being joined to the cell.
RECURSIVE FillRowAppending(_, _, _)
FillRowAppending(row_output, words, ncols) ==
    IF words = <<>> THEN row_output
    ELSE LET w == Head(words)
             c == w.column_idx
             filled ==
                 IF 1 <= c /\ c <= ncols
                 THEN IF row_output[c] # <<>> THEN Append(row_output, w.text)
                      ELSE [row_output EXCEPT ![c] = w.text]
                 ELSE row_output
         IN FillRowAppending(filled, Tail(words), ncols)

BuildRowAppending(words, ncols) ==
    FillRowAppending([j \in 1..ncols |-> <<>>], words, ncols)

\* BuildRow with a slip: a word for an occupied cell replaces what the cell holds.
RECURSIVE FillRowOverwriting(_, _, _)
FillRowOverwriting(row_output, words, ncols) ==
    IF words = <<>> THEN row_output
    ELSE LET w == Head(words)
             c == w.column_idx
             filled ==
                 IF 1 <= c /\ c <= ncols
                 THEN [row_output EXCEPT ![c] = w.text]
                 ELSE row_output
         IN FillRowOverwriting(filled, Tail(words), ncols)

BuildRowOverwriting(words, ncols) ==
    FillRowOverwriting([j \in 1..ncols |-> <<>>], words, ncols)

\* Lines 103-110 (and 119-126): the cells of one row.
RECURSIVE FillRow(_, _, _)
FillRow(row_output, words, ncols) ==
    IF words = <<>> THEN row_output
    ELSE LET w == Head(words)
             c == w.column_idx
             filled ==
                 IF 1 <= c /\ c <= ncols
                 THEN [row_output EXCEPT
                          ![c] = IF @ # <<>> THEN @ \o <<" ">> \o w.text ELSE w.text]
                 ELSE row_output
         IN FillRow(filled, Tail(words), ncols)

BuildRow(words, ncols) == FillRow([j \in 1..ncols |-> <<>>], words, ncols)

\* StartsNewRow with a slip: the factor 0.8 is left out.
StartsNewRowFullHeight(t, row_top) == t.top > row_top + t.height

\* Line 99: the word is significantly below the current row's top.
StartsNewRow(t, row_top) == RowGapDen * t.top > RowGapDen * row_top + RowGapNum * t.height

\* Lines 96-115: one pass of the row loop, for the row data[ti].
RowStep ==
    /\ tpc = "rows"
    /\ ti <= Len(data)
    /\ LET t == data[ti] IN
        IF StartsNewRow(t, current_row_top)
        THEN /\ IF current_row_words # <<>>
                THEN /\ table_rows' = Append(table_rows,
                            BuildRow(current_row_words, Len(column_centers)))
                     /\ row_tokens' = Append(row_tokens, current_row_words)
                ELSE UNCHANGED <<table_rows, row_tokens>>
             /\ current_row_words' = <<t>>
             /\ current_row_top' = t.top
        ELSE /\ current_row_words' = Append(current_row_words, t)
             /\ UNCHANGED <<table_rows, row_tokens, current_row_top>>
    /\ ti' = ti + 1
    /\ UNCHANGED <<image, tpc, data, column_centers, table_result, merged_lefts,
                   table_raised>>
    /\ UNCHANGED pvars

\* max(len(row) for row in table_rows)
RECURSIVE MaxRowLen(_)
MaxRowLen(rows) ==
    IF rows = <<>> THEN 0
    ELSE LET m == MaxRowLen(Tail(rows))
         IN IF Len(Head(rows)) > m THEN Len(Head(rows)) ELSE m

\* Line 134: row + [''] * (num_cols - len(row))
PadRow(row, num_cols) == row \o [j \in 1..(num_cols - Len(row)) |-> <<>>]

\* Verdict with a slip: one row or one column is enough for a table.
VerdictAnyTable(rows) ==
    IF rows # <<>>
    THEN LET num_cols == MaxRowLen(rows)
             padded == [r \in 1..Len(rows) |-> PadRow(rows[r], num_cols)]
         IN IF Len(padded) >= 1 /\ num_cols >= 1
            THEN [kind |-> "DataFrame", rows |-> padded, num_cols |-> num_cols]
            ELSE NoneVal
    ELSE NoneVal

\* Lines 129-142: the padding and the verdict.
Verdict(rows) ==
    IF rows # <<>>
    THEN LET num_cols == MaxRowLen(rows)
             padded == [r \in 1..Len(rows) |-> PadRow(rows[r], num_cols)]
         IN IF Len(padded) > 1 /\ num_cols > 1
            THEN [kind |-> "DataFrame", rows |-> padded, num_cols |-> num_cols]
            ELSE NoneVal
    ELSE NoneVal

\* Lines 118-142: the last row, then the verdict.
FinishTable ==
    /\ tpc = "rows"
    /\ ti > Len(data)
    /\ LET flushed == current_row_words # <<>>
           rows == IF flushed
                   THEN Append(table_rows, BuildRow(current_row_words, Len(column_centers)))
                   ELSE table_rows
       IN /\ table_rows' = rows
          /\ row_tokens' = IF flushed THEN Append(row_tokens, current_row_words)
                           ELSE row_tokens
          /\ table_result' = Verdict(rows)
    /\ tpc' = "returned"
    /\ UNCHANGED <<image, data, column_centers, ti, current_row_words, current_row_top,
                   merged_lefts, table_raised>>
    /\ UNCHANGED pvars

\* TableExcept with a slip: the handler lets the exception out to the caller.
TableExceptPropagates ==
    /\ tpc \in {"ocr", "cluster", "assign", "rows"}
    /\ table_raised' = TRUE
    /\ table_result' = NoneVal
    /\ tpc' = "raised"
    /\ data' = <<>>
    /\ column_centers' = <<>>
    /\ ti' = 1
    /\ table_rows' = <<>>
    /\ current_row_words' = <<>>
    /\ current_row_top' = 0
    /\ merged_lefts' = <<>>
    /\ row_tokens' = <<>>
    /\ UNCHANGED image
    /\ UNCHANGED pvars

\* Lines 147-149: an exception raised anywhere in the try block (by image_to_data,
\* by pandas or by numpy) is caught, and None is returned.
\* The locals of the abandoned call are gone with it.
TableExcept ==
    /\ tpc \in {"ocr", "cluster", "assign", "rows"}
    /\ table_raised' = TRUE
    /\ table_result' = NoneVal
    /\ tpc' = "returned"
    /\ data' = <<>>
    /\ column_centers' = <<>>
    /\ ti' = 1
    /\ table_rows' = <<>>
    /\ current_row_words' = <<>>
    /\ current_row_top' = 0
    /\ merged_lefts' = <<>>
    /\ row_tokens' = <<>>
    /\ UNCHANGED image
    /\ UNCHANGED pvars

TableNext ==
    \/ FilterAndSort
    \/ ClusterStep
    \/ Quantize
    \/ AssignColumns
    \/ RowStep
    \/ FinishTable
    \/ TableExcept

\* ---------------------------------------------------- extract_text_from_pdf

\* The text of n characters "a".
Run(n) == [i \in 1..n |-> "a"]

\* What image_to_string can give for a page: nothing, one word one character short
\* of the threshold and one of exactly the threshold, and two texts with spaces and
\* newlines around and between two words, of cleaned length threshold - 1 (raw
\* length above the threshold) and threshold.
RawTexts ==
    { <<>>,
      Run(MIN_TEXT_LENGTH_FOR_LEGIBILITY - 1),
      Run(MIN_TEXT_LENGTH_FOR_LEGIBILITY),
      <<" ">> \o Run(MIN_TEXT_LENGTH_FOR_LEGIBILITY - 26) \o <<" ", "\n">>
          \o Run(24) \o <<"\n", " ">>,
      <<"\n">> \o Run(MIN_TEXT_LENGTH_FOR_LEGIBILITY - 25) \o <<" ", " ">>
          \o Run(24) \o <<" ">> }

\* The page images of a document: a blank page, a page of rows that are all
\* filtered out, one line of two words, and two lines of two words.
PageImages ==
    LET w(l, t) == [kind |-> "word", left |-> l, top |-> t, height |-> 20]
        x(k) == [kind |-> k, left |-> 0, top |-> 100, height |-> 20]
    IN { <<>>,
         MkImage(<<x("lowconf"), x("blank"), x("na")>>),
         MkImage(<<w(0, 100), w(26, 100)>>),
         MkImage(<<w(0, 100), w(26, 100), w(0, 117), w(26, 117)>>) }

\* extract_table_from_image is not running.
TableIdle ==
    /\ image = <<>>
    /\ tpc = "idle"
    /\ data = <<>>
    /\ column_centers = <<>>
    /\ ti = 1
    /\ table_rows = <<>>
    /\ current_row_words = <<>>
    /\ current_row_top = 0
    /\ table_result = NoneVal
    /\ merged_lefts = <<>>
    /\ row_tokens = <<>>
    /\ table_raised = FALSE

\* The call is over and its value taken: extract_table_from_image is not running.
TableDone ==
    /\ image' = <<>>
    /\ tpc' = "idle"
    /\ data' = <<>>
    /\ column_centers' = <<>>
    /\ ti' = 1
    /\ table_rows' = <<>>
    /\ current_row_words' = <<>>
    /\ current_row_top' = 0
    /\ table_result' = NoneVal
    /\ merged_lefts' = <<>>
    /\ row_tokens' = <<>>
    /\ table_raised' = FALSE

\* Line 211: the call extract_table_from_image(page_image).
TableCall(img) ==
    /\ image' = img
    /\ tpc' = "ocr"
    /\ data' = <<>>
    /\ column_centers' = <<>>
    /\ ti' = 1
    /\ table_rows' = <<>>
    /\ current_row_words' = <<>>
    /\ current_row_top' = 0
    /\ table_result' = NoneVal
    /\ merged_lefts' = <<>>
    /\ row_tokens' = <<>>
    /\ table_raised' = FALSE

\* IsIllegible with a slip: a text of exactly the threshold's length is illegible.
IsIllegibleAtThreshold(cleaned) == Len(cleaned) <= MIN_TEXT_LENGTH_FOR_LEGIBILITY

\* The legibility test of line 201 (ocrv1.py line 70).
IsIllegible(cleaned) == Len(cleaned) < MIN_TEXT_LENGTH_FOR_LEGIBILITY

\* FreshPageLocals with a slip: the locals are set once, before the loop, and a
\* page starts with what the page before left in them.
StalePageLocals ==
    [page_text |-> page_text, is_legible |-> is_legible, has_table |-> has_table,
     table_df |-> table_df]

\* Lines 190-193: the locals every page starts with.
FreshPageLocals ==
    [page_text |-> <<>>, is_legible |-> FALSE, has_table |-> FALSE, table_df |-> NoneVal]

\* AttemptsTable with a slip: the call is outside the else branch.
AttemptsTableAlways(legible) == TRUE

\* Lines 205-211: table extraction is attempted in the legible branch only.
AttemptsTable(legible) == legible

\* Lines 235-241: the record of a page.
PageRecord(pn, text, legible, table, tdf) ==
    [page_number |-> pn, extracted_text |-> text, is_legible |-> legible,
     has_table |-> table, table_data |-> tdf]

\* ocrv1.py lines 73-77, 79-83, 95-99: the record of a page.
PageRecordV1(pn, text, legible) ==
    [page_number |-> pn, extracted_text |-> text, is_legible |-> legible]

NoLog == [ocr_raised |-> FALSE, cleaned |-> <<>>, table_called |-> FALSE,
          table_raised |-> FALSE, csv_failed |-> FALSE, txt_failed |-> FALSE]

\* State at the call of extract_text_from_pdf.
PdfInit ==
    /\ variant \in {"tesseract", "ocrv1"}
    /\ ppc = "convert"
    /\ num_pages = 0
    /\ page_number = 0
    /\ cleaned_text = <<>>
    /\ page_text = <<>>
    /\ is_legible = FALSE
    /\ has_table = FALSE
    /\ table_df = NoneVal
    /\ extracted_data = <<>>
    /\ illegible_pages = <<>>
    /\ df = NoneVal
    /\ page_log = <<>>

\* Lines 166-184 (ocrv1.py 38-56): the file is missing or convert_from_path
\* raises, and (None, []) is returned; or the pages are there.
ConvertPdf ==
    /\ ppc = "convert"
    /\ \/ /\ ppc' = "done"
          /\ df' = NoneVal
          /\ UNCHANGED num_pages
       \/ \E n \in 0..MaxPages :
              /\ num_pages' = n
              /\ ppc' = "loop"
              /\ UNCHANGED df
    /\ UNCHANGED <<variant, page_number, cleaned_text, page_text, is_legible, has_table,
                   table_df, extracted_data, illegible_pages, page_log>>
    /\ UNCHANGED tvars

\* Lines 187-211 and, for a page that does not reach table extraction, 230-241:
\* the page's locals, image_to_string, the legibility test and either the call of
\* extract_table_from_image or the page's record.
PageBegin ==
    /\ variant = "tesseract"
    /\ ppc = "loop"
    /\ page_number < num_pages
    /\ page_number' = page_number + 1
    /\ LET pn == page_number + 1
           fresh == FreshPageLocals
       IN \/ \* image_to_string raises: lines 230-233, then the record
             /\ illegible_pages' = Append(illegible_pages, pn)
             /\ is_legible' = FALSE
             /\ page_text' = fresh.page_text
             /\ has_table' = fresh.has_table
             /\ table_df' = fresh.table_df
             /\ extracted_data' = Append(extracted_data,
                    PageRecord(pn, fresh.page_text, FALSE, fresh.has_table, fresh.table_df))
             /\ page_log' = Append(page_log, [NoLog EXCEPT !.ocr_raised = TRUE])
             /\ UNCHANGED <<cleaned_text, ppc>>
             /\ UNCHANGED tvars
          \/ \E text \in RawTexts :
                LET cleaned == CleanText(text)
                    legible == ~IsIllegible(cleaned)
                IN /\ cleaned_text' = cleaned
                   /\ page_text' = cleaned
                   /\ is_legible' = legible
                   /\ has_table' = fresh.has_table
                   /\ table_df' = fresh.table_df
                   /\ illegible_pages' =
                          IF legible THEN illegible_pages ELSE Append(illegible_pages, pn)
                   /\ IF AttemptsTable(legible)
                      THEN /\ \E img \in PageImages : TableCall(img)
                           /\ ppc' = "table"
                           /\ page_log' = Append(page_log,
                                  [NoLog EXCEPT !.cleaned = cleaned, !.table_called = TRUE])
                           /\ UNCHANGED extracted_data
                      ELSE /\ extracted_data' = Append(extracted_data,
                                  PageRecord(pn, cleaned, legible, fresh.has_table,
                                             fresh.table_df))
                           /\ page_log' = Append(page_log, [NoLog EXCEPT !.cleaned = cleaned])
                           /\ UNCHANGED ppc
                           /\ UNCHANGED tvars
    /\ UNCHANGED <<variant, num_pages, df>>

\* Lines 211-241: extract_table_from_image has returned (or raised); the CSV
\* file, the text file, the handler of line 230 and the page's record.
PageFinish ==
    /\ variant = "tesseract"
    /\ ppc = "table"
    /\ tpc \in {"returned", "raised"}
    /\ \E csv_fails \in BOOLEAN, txt_fails \in BOOLEAN :
        LET pn == page_number
            returned == tpc = "returned"
            tdf == IF returned THEN table_result ELSE table_df
            found == returned /\ tdf # NoneVal /\ tdf.rows # <<>>
            csv_raises == found /\ csv_fails
            txt_raises == returned /\ is_legible /\ ~csv_raises /\ txt_fails
            raises == ~returned \/ csv_raises \/ txt_raises
            legible == IF raises THEN FALSE ELSE is_legible
        IN /\ (~found => ~csv_fails)
           /\ ((~returned \/ csv_raises \/ ~is_legible) => ~txt_fails)
           /\ table_df' = tdf
           /\ has_table' = found
           /\ is_legible' = legible
           /\ illegible_pages' =
                  IF raises THEN Append(illegible_pages, pn) ELSE illegible_pages
           /\ extracted_data' = Append(extracted_data,
                  PageRecord(pn, page_text, legible, found, tdf))
           /\ page_log' = [page_log EXCEPT ![pn] =
                  [@ EXCEPT !.table_raised = table_raised \/ ~returned,
                            !.csv_failed = csv_raises, !.txt_failed = txt_raises]]
    /\ ppc' = "loop"
    /\ TableDone
    /\ UNCHANGED <<variant, num_pages, page_number, cleaned_text, page_text, df>>

\* ocrv1.py lines 59-99: one pass of the page loop.
PageV1 ==
    /\ variant = "ocrv1"
    /\ ppc = "loop"
    /\ page_number < num_pages
    /\ page_number' = page_number + 1
    /\ LET pn == page_number + 1 IN
        \/ \* image_to_string raises: lines 92-99
           /\ illegible_pages' = Append(illegible_pages, pn)
           /\ extracted_data' = Append(extracted_data, PageRecordV1(pn, <<>>, FALSE))
           /\ page_log' = Append(page_log, [NoLog EXCEPT !.ocr_raised = TRUE])
           /\ UNCHANGED cleaned_text
        \/ \E text \in RawTexts, txt_fails \in BOOLEAN :
              LET cleaned == CleanText(text)
                  short == IsIllegible(cleaned)
              IN /\ (short => ~txt_fails)
                 /\ cleaned_text' = cleaned
                 /\ illegible_pages' =
                        IF short \/ txt_fails THEN Append(illegible_pages, pn)
                        ELSE illegible_pages
                 /\ extracted_data' =
                        IF short
                        THEN Append(extracted_data, PageRecordV1(pn, <<>>, FALSE))
                        ELSE IF txt_fails
                        THEN extracted_data \o <<PageRecordV1(pn, cleaned, TRUE),
                                                 PageRecordV1(pn, <<>>, FALSE)>>
                        ELSE Append(extracted_data, PageRecordV1(pn, cleaned, TRUE))
                 /\ page_log' = Append(page_log,
                        [NoLog EXCEPT !.cleaned = cleaned, !.txt_failed = txt_fails])
    /\ UNCHANGED <<variant, ppc, num_pages, page_text, is_legible, has_table, table_df, df>>
    /\ UNCHANGED tvars

\* Lines 243-244 (ocrv1.py 101-102): the loop is over.
ReturnResult ==
    /\ ppc = "loop"
    /\ page_number = num_pages
    /\ df' = [kind |-> "DataFrame", rows |-> extracted_data]
    /\ ppc' = "done"
    /\ UNCHANGED <<variant, num_pages, page_number, cleaned_text, page_text, is_legible,
                   has_table, table_df, extracted_data, illegible_pages, page_log>>
    /\ UNCHANGED tvars

\* ---------------------------------------------------------- specifications
\* No document is being processed.
PdfIdle ==
    /\ variant = "tesseract"
    /\ ppc = "idle"
    /\ num_pages = 0
    /\ page_number = 0
    /\ cleaned_text = <<>>
    /\ page_text = <<>>
    /\ is_legible = FALSE
    /\ has_table = FALSE
    /\ table_df = NoneVal
    /\ extracted_data = <<>>
    /\ illegible_pages = <<>>
    /\ df = NoneVal
    /\ page_log = <<>>

\* extract_table_from_image on every page image within the bounds.
Init ==
    /\ \E n \in 0..MaxTokens : \E f \in [1..n -> Shapes] : TableInit(MkImage(f))
    /\ PdfIdle

Next == TableNext

Spec == Init /\ [][Next]_vars

\* extract_text_from_pdf, of either file, on every document within the bounds.
InitPdf == PdfInit /\ TableIdle

NextPdf ==
    \/ ConvertPdf
    \/ PageBegin
    \/ TableNext
    \/ PageFinish
    \/ PageV1
    \/ ReturnResult

SpecPdf == InitPdf /\ [][NextPdf]_vars

\* =============================================== claims on the table extraction
\* extract_table_from_image has returned a table.
TableReturned == tpc = "returned" /\ table_result.kind = "DataFrame"

\* C1: extract_table_from_image returns either None or a table with at least 2
\* rows and at least 2 columns; a table with fewer than 2 rows or fewer than 2
\* columns is never returned.
C1_TableAtLeast2x2 ==
    tpc = "returned" =>
        \/ table_result = NoneVal
        \/ /\ table_result.kind = "DataFrame"
           /\ Len(table_result.rows) >= 2
           /\ table_result.num_cols >= 2
           /\ \A r \in 1..Len(table_result.rows) : Len(table_result.rows[r]) >= 2

\* A table of exactly 2 rows and 2 columns is returned, from words that were kept.
C1_Witness ==
    /\ TableReturned
    /\ Len(table_result.rows) = 2
    /\ table_result.num_cols = 2
    /\ Len(data) >= 3

\* C2: in every table returned, every row has the same length, which is the number
\* of column anchors left after the quantize/deduplicate pass.
C2_UniformWidth ==
    TableReturned =>
        /\ table_result.num_cols = Len(column_centers)
        /\ \A r \in 1..Len(table_result.rows) :
               Len(table_result.rows[r]) = Len(column_centers)

\* A returned table in which a cell holds two words and another cell is empty.
C2_Witness ==
    /\ TableReturned
    /\ \E r \in 1..Len(table_result.rows) : \E c \in 1..Len(table_result.rows[r]) :
           Len(table_result.rows[r][c]) >= 3
    /\ \E r \in 1..Len(table_result.rows) : \E c \in 1..Len(table_result.rows[r]) :
           table_result.rows[r][c] = <<>>

\* The lefts and the tops of the page image's rows.
ImageLefts == {image[k].left : k \in 1..Len(image)}
ImageTops == {image[k].top : k \in 1..Len(image)}

\* The page image is a complete R x C grid, R >= 2 and C >= 2: one kept word at
\* every (left, top), lefts pairwise more than COLUMN_TOLERANCE apart, tops more
\* than 0.8 x height apart.
CompleteGrid ==
    /\ Cardinality(ImageLefts) >= 2
    /\ Cardinality(ImageTops) >= 2
    /\ Len(image) = Cardinality(ImageLefts) * Cardinality(ImageTops)
    /\ \A k \in 1..Len(image) :
           /\ image[k].conf > TABLE_CONFIDENCE_THRESHOLD
           /\ ~image[k].na
           /\ Strip(image[k].text) # <<>>
    /\ \A l \in ImageLefts, t \in ImageTops :
           \E k \in 1..Len(image) : image[k].left = l /\ image[k].top = t
    /\ \A l1 \in ImageLefts, l2 \in ImageLefts :
           l1 # l2 => Abs(l1 - l2) > COLUMN_TOLERANCE
    /\ \A t1 \in ImageTops, t2 \in ImageTops, k \in 1..Len(image) :
           t1 < t2 => 10 * (t2 - t1) > 8 * image[k].height

\* The text of the grid's word at (l, t).
GridText(l, t) ==
    image[CHOOSE k \in 1..Len(image) : image[k].left = l /\ image[k].top = t].text

\* The table of a complete grid: cell (i, j) is the text of the word at row i,
\* column j.
GridTable ==
    LET ls == SortedSeq(ImageLefts)
        ts == SortedSeq(ImageTops)
    IN [i \in 1..Len(ts) |-> [j \in 1..Len(ls) |-> GridText(ls[j], ts[i])]]

\* C8: for a complete R x C grid of words (columns more than COLUMN_TOLERANCE
\* apart, rows more than 0.8 x height apart, every word kept by the filters),
\* extract_table_from_image returns the R x C table whose cell (i, j) is exactly
\* the text of the word at row i, column j.
C8_GridReconstructed ==
    (tpc = "returned" /\ ~table_raised /\ CompleteGrid) =>
        /\ table_result.kind = "DataFrame"
        /\ table_result.rows = GridTable

\* The step is a pass of the clustering loop for the row data[ti].
IsClusterStep == tpc = "cluster" /\ tpc' = "cluster" /\ ti <= Len(data) /\ ti' = ti + 1

\* C9: in the clustering pass, when a word's left is within COLUMN_TOLERANCE of an
\* anchor, only the first such anchor in discovery order is updated, and its new
\* centre is the equally weighted running mean of the lefts merged into it:
\* newCenter = (oldCenter * count + newLeft) / (count + 1), count being the number
\* of words already merged into that anchor.
C9_RunningMean ==
    [][IsClusterStep =>
        LET left == data[ti].left
            near == {j \in 1..Len(column_centers) :
                        Abs(left * column_centers[j].d - column_centers[j].n)
                            <= COLUMN_TOLERANCE * column_centers[j].d}
        IN near # {} =>
            LET j == CHOOSE x \in near : \A y \in near : x <= y
                count == Len(merged_lefts[j])
                old == column_centers[j]
                new == column_centers'[j]
            IN /\ Len(column_centers') = Len(column_centers)
               /\ \A k \in 1..Len(column_centers) :
                      k # j => column_centers'[k] = column_centers[k]
               /\ new.n * old.d * (count + 1) = new.d * (old.n * count + left * old.d)
      ]_vars

\* The step is a pass of the row loop for the row data[ti].
IsRowStep == tpc = "rows" /\ tpc' = "rows" /\ ti <= Len(data) /\ ti' = ti + 1

\* The concatenation of a sequence of sequences.
RECURSIVE Flatten(_)
Flatten(ss) == IF ss = <<>> THEN <<>> ELSE Head(ss) \o Flatten(Tail(ss))

\* A pass of the row loop starts a new row exactly when
\* top > currentRowTop + 0.8 * height: then the words accumulated become one row and
\* currentRowTop becomes that word's top; otherwise the word joins the row in
\* progress and currentRowTop stays.
C10_RowStepRule ==
    IsRowStep =>
        LET t == data[ti] IN
        IF 10 * t.top > 10 * current_row_top + 8 * t.height
        THEN /\ current_row_words # <<>>
             /\ row_tokens' = Append(row_tokens, current_row_words)
             /\ Len(table_rows') = Len(table_rows) + 1
             /\ current_row_words' = <<t>>
             /\ current_row_top' = t.top
        ELSE /\ row_tokens' = row_tokens
             /\ table_rows' = table_rows
             /\ current_row_words' = Append(current_row_words, t)
             /\ current_row_top' = current_row_top

\* While the rows are walked, the rows built and the row in progress are
\* contiguous non-empty segments of the sorted words walked so far, and
\* currentRowTop is the top of the first word of the row in progress (the first
\* word's top before any word is walked); after the last word all of them are rows.
C10_RowsCoverStream ==
    /\ tpc = "rows" =>
           /\ Flatten(row_tokens) \o current_row_words = SubSeq(data, 1, ti - 1)
           /\ \A r \in 1..Len(row_tokens) : row_tokens[r] # <<>>
           /\ Len(table_rows) = Len(row_tokens)
           /\ current_row_top =
                  IF current_row_words = <<>> THEN data[1].top
                  ELSE current_row_words[1].top
    /\ (tpc = "returned" /\ ~table_raised /\ data # <<>>) =>
           /\ Flatten(row_tokens) = data
           /\ \A r \in 1..Len(row_tokens) : row_tokens[r] # <<>>
           /\ Len(table_rows) = Len(row_tokens)

\* C10: row segmentation walks the (top, left)-sorted words with currentRowTop
\* initialised to the first word's top; a word starts a new row exactly when
\* top > currentRowTop + 0.8 * height, and then the accumulated words become one row
\* and currentRowTop becomes that word's top; currentRowTop changes at no other
\* time; the last row is flushed after the final word, so the rows are contiguous
\* non-empty segments of the sorted stream that together cover it.
C10_RowSegmentation == [][C10_RowStepRule]_vars /\ []C10_RowsCoverStream

\* The walk is over with two rows, the first of which holds words of different
\* tops (a word below the row's top that did not start a new row).
C10_Witness ==
    /\ tpc = "returned"
    /\ Len(row_tokens) >= 2
    /\ \E a \in 1..Len(row_tokens[1]) : row_tokens[1][a].top # row_tokens[1][1].top

\* ==================================================== claims on the page loop
\* The records of page p.
RecordsOf(p) == {i \in 1..Len(extracted_data) : extracted_data[i].page_number = p}

\* The pages whose pass of the loop is over.
PagesDone == IF ppc = "table" THEN 1..(page_number - 1) ELSE 1..page_number

\* C3: legibility depends only on the length of the cleaned text against
\* MIN_TEXT_LENGTH_FOR_LEGIBILITY: a page whose cleaned text has length
\* threshold - 1 or less is recorded with is_legible = False, one of length
\* threshold or more with is_legible = True, provided no step of the page raises.
C3_LegibilityByLength ==
    \A i \in 1..Len(extracted_data) :
        LET r == extracted_data[i]
            lg == page_log[r.page_number]
        IN (~lg.ocr_raised /\ ~lg.csv_failed /\ ~lg.txt_failed) =>
               /\ Len(lg.cleaned) <= MIN_TEXT_LENGTH_FOR_LEGIBILITY - 1 => r.is_legible = FALSE
               /\ Len(lg.cleaned) >= MIN_TEXT_LENGTH_FOR_LEGIBILITY => r.is_legible = TRUE

\* Two pages with no exception, one of cleaned length threshold - 1 recorded
\* illegible and one of cleaned length threshold recorded legible.
C3_Witness ==
    \E i, j \in 1..Len(extracted_data) :
        LET ri == extracted_data[i]
            rj == extracted_data[j]
            li == page_log[ri.page_number]
            lj == page_log[rj.page_number]
        IN /\ ~li.ocr_raised /\ ~li.csv_failed /\ ~li.txt_failed
           /\ ~lj.ocr_raised /\ ~lj.csv_failed /\ ~lj.txt_failed
           /\ Len(li.cleaned) = MIN_TEXT_LENGTH_FOR_LEGIBILITY - 1 /\ ~ri.is_legible
           /\ Len(lj.cleaned) = MIN_TEXT_LENGTH_FOR_LEGIBILITY /\ rj.is_legible

\* C4: for every page whose cleaned text is shorter than the legibility threshold,
\* the page record has is_legible = False and its extracted_text is the empty
\* string (the short cleaned text is not retained).
C4_ShortTextNotRetained ==
    \A i \in 1..Len(extracted_data) :
        LET r == extracted_data[i]
            lg == page_log[r.page_number]
        IN (~lg.ocr_raised /\ Len(lg.cleaned) < MIN_TEXT_LENGTH_FOR_LEGIBILITY) =>
               /\ r.is_legible = FALSE
               /\ r.extracted_text = <<>>

\* C5: the legibility gate is decided before table extraction:
\* extract_table_from_image is invoked only after the page's cleaned text has been
\* found to have length >= the threshold; a page the gate classifies illegible
\* never enters table extraction and its record has has_table = False and no table.
C5_GateBeforeTable ==
    /\ tpc # "idle" =>
           /\ ppc = "table"
           /\ Len(cleaned_text) >= MIN_TEXT_LENGTH_FOR_LEGIBILITY
           /\ page_log[page_number].table_called
    /\ \A p \in 1..Len(page_log) :
           page_log[p].table_called =>
               /\ ~page_log[p].ocr_raised
               /\ Len(page_log[p].cleaned) >= MIN_TEXT_LENGTH_FOR_LEGIBILITY
    /\ variant = "tesseract" =>
           \A i \in 1..Len(extracted_data) :
               LET r == extracted_data[i]
                   lg == page_log[r.page_number]
               IN (~lg.ocr_raised /\ Len(lg.cleaned) < MIN_TEXT_LENGTH_FOR_LEGIBILITY) =>
                      /\ ~lg.table_called
                      /\ r.is_legible = FALSE
                      /\ r.has_table = FALSE
                      /\ r.table_data = NoneVal

\* A page with a text the gate classifies illegible has its record, and the table
\* extraction of a later page is running.
C5_Witness ==
    /\ variant = "tesseract"
    /\ tpc = "rows"
    /\ \E i \in 1..Len(extracted_data) :
           LET lg == page_log[extracted_data[i].page_number]
           IN /\ ~lg.ocr_raised
              /\ lg.cleaned # <<>>
              /\ Len(lg.cleaned) < MIN_TEXT_LENGTH_FOR_LEGIBILITY

\* C6: when OCR raises on a page, that page is recorded as illegible with empty
\* text and no table, and processing continues with the remaining pages: every
\* page, before and after the failing one, still gets exactly one record, in page
\* order.  (A page whose own file write raises is not this claim's case.)
C6_OcrFailureIsolated ==
    /\ \A p \in 1..Len(page_log) :
           page_log[p].ocr_raised =>
               /\ Cardinality(RecordsOf(p)) = 1
               /\ \A i \in RecordsOf(p) :
                      /\ extracted_data[i].is_legible = FALSE
                      /\ extracted_data[i].extracted_text = <<>>
                      /\ variant = "tesseract" =>
                             /\ extracted_data[i].has_table = FALSE
                             /\ extracted_data[i].table_data = NoneVal
    /\ \A i, j \in 1..Len(extracted_data) :
           i < j => extracted_data[i].page_number <= extracted_data[j].page_number
    /\ \A p \in PagesDone :
           /\ RecordsOf(p) # {}
           /\ (~page_log[p].csv_failed /\ ~page_log[p].txt_failed) =>
                  Cardinality(RecordsOf(p)) = 1
    /\ (ppc = "done" /\ df # NoneVal) =>
           /\ page_number = num_pages
           /\ df.rows = extracted_data

\* A document of three pages is done: OCR raised on the second, and the first and
\* the third are recorded legible.
C6_Witness ==
    /\ ppc = "done"
    /\ num_pages = 3
    /\ page_log[2].ocr_raised
    /\ \E i, j \in 1..Len(extracted_data) :
           /\ extracted_data[i].page_number = 1 /\ extracted_data[i].is_legible
           /\ extracted_data[j].page_number = 3 /\ extracted_data[j].is_legible

\* C7: any failure during column inference, row segmentation or grid assembly is
\* recorded as 'no table detected' for the page and never propagates:
\* extract_table_from_image returns None instead of raising (also for an empty or
\* fully filtered-out page image), and the page keeps is_legible = True and its
\* cleaned text.
C7_TableFailureContained ==
    /\ tpc # "raised"
    /\ (tpc = "returned" /\ table_raised) => table_result = NoneVal
    /\ (tpc = "returned" /\ \A k \in 1..Len(image) : ~KeepRow(image[k])) =>
           table_result = NoneVal
    /\ (ppc = "table" /\ tpc = "returned") =>
           /\ is_legible = TRUE
           /\ page_text = cleaned_text
    /\ variant = "tesseract" =>
           \A i \in 1..Len(extracted_data) :
               LET r == extracted_data[i]
                   lg == page_log[r.page_number]
               IN (lg.table_raised /\ ~lg.txt_failed) =>
                      /\ r.is_legible = TRUE
                      /\ r.extracted_text = lg.cleaned
                      /\ r.has_table = FALSE
                      /\ r.table_data = NoneVal

\* Table extraction raised while the rows of a page were walked, and the page is
\* recorded legible with its text and no table.
C7_Witness ==
    /\ variant = "tesseract"
    /\ \E i \in 1..Len(extracted_data) :
           /\ page_log[extracted_data[i].page_number].table_raised
           /\ extracted_data[i].is_legible
           /\ Len(extracted_data[i].extracted_text) >= MIN_TEXT_LENGTH_FOR_LEGIBILITY
           /\ extracted_data[i].has_table = FALSE

\* ================================================ claims on the grid assembly
\* The words of ws that are in column c, in the order of ws.
RECURSIVE InColumn(_, _)
InColumn(ws, c) ==
    IF ws = <<>> THEN <<>>
    ELSE IF Head(ws).column_idx = c THEN <<Head(ws)>> \o InColumn(Tail(ws), c)
    ELSE InColumn(Tail(ws), c)

\* The texts of the words ws.
TextsOf(ws) == [k \in 1..Len(ws) |-> ws[k].text]

\* How often x is in the sequence s.
CountIn(s, x) == Cardinality({k \in 1..Len(s) : s[k] = x})

\* The words of all cells of the rows built, row by row and cell by cell.
CellWords == Flatten([k \in 1..Len(Flatten(table_rows)) |-> Split(Flatten(table_rows)[k])])

\* The column whose anchor is nearest to left, the first of them on a tie.
NearestAnchor(left) ==
    CHOOSE j \in 1..Len(column_centers) :
        \A k \in 1..Len(column_centers) :
            \/ Abs(column_centers[j].n - left) < Abs(column_centers[k].n - left)
            \/ (Abs(column_centers[j].n - left) = Abs(column_centers[k].n - left) /\ j <= k)

\* C11: grid assembly loses no token: every token that passed the confidence and
\* blank-text filter contributes its text to exactly one cell (the cell of its row
\* segment and its nearest-anchor column); within a cell the contributing texts
\* are in reading order joined by single spaces; so the multiset of words over all
\* cells equals the multiset of the filtered tokens' texts.
C11_NoTokenLost ==
    (tpc = "returned" /\ ~table_raised /\ data # <<>>) =>
        /\ Flatten(row_tokens) = data
        /\ \A k \in 1..Len(data) : data[k].column_idx = NearestAnchor(data[k].left)
        /\ Len(table_rows) = Len(row_tokens)
        /\ \A r \in 1..Len(table_rows) :
               /\ Len(table_rows[r]) = Len(column_centers)
               /\ \A c \in 1..Len(table_rows[r]) :
                      table_rows[r][c] = Join(TextsOf(InColumn(row_tokens[r], c)))
        /\ Len(CellWords) = Len(data)
        /\ \A k \in 1..Len(data) :
               CountIn(CellWords, data[k].text) = CountIn(TextsOf(data), data[k].text)

\* The rows are built from four kept words, with a cell of two words and, in
\* another row, a cell of one word.
C11_Witness ==
    /\ tpc = "returned"
    /\ Len(data) = 4
    /\ Len(table_rows) >= 2
    /\ \E r \in 1..Len(table_rows) : \E c \in 1..Len(table_rows[r]) :
           Len(table_rows[r][c]) = 3
    /\ \E r \in 1..Len(table_rows) : \E c \in 1..Len(table_rows[r]) :
           Len(table_rows[r][c]) = 1

\* ====================================== claims on the records and the page list
\* C12: in every page record of extract_text_from_pdf (Tesseract_ocr.py), after
\* any sequence of per-page successes and failures (a failure while writing the
\* table CSV or the text file included), has_table = True implies
\* is_legible = True and the page number is not in the illegible-pages list.
C12_TableImpliesLegible ==
    variant = "tesseract" =>
        \A i \in 1..Len(extracted_data) :
            extracted_data[i].has_table = TRUE =>
                /\ extracted_data[i].is_legible = TRUE
                /\ \A k \in 1..Len(illegible_pages) :
                       illegible_pages[k] # extracted_data[i].page_number

\* The pages with a record of is_legible = False.
IllegibleRecorded ==
    {extracted_data[i].page_number :
        i \in {k \in 1..Len(extracted_data) : ~extracted_data[k].is_legible}}

\* C13: after extract_text_from_pdf has processed a document of N pages, whatever
\* mix of legible pages, illegible pages and per-page exceptions occurred, the
\* illegible-pages list holds exactly the page numbers whose record has
\* is_legible = False, each once and in ascending order, and the result holds
\* exactly N records with page numbers 1..N in order.
C13_ListMatchesRecords ==
    (ppc = "done" /\ df # NoneVal) =>
        /\ illegible_pages = SortedSeq(IllegibleRecorded)
        /\ Len(df.rows) = num_pages
        /\ \A i \in 1..Len(df.rows) : df.rows[i].page_number = i

====
